---- MODULE Spec2Model ----
(***************************************************************************)
(* The Go circuit breaker of pvlbzn/circuitbreaker (package circuitbreaker) *)
(* as a state machine: the CircuitBreaker struct, Call with its mutex, the  *)
(* three state handlers and runWithTimeout with the goroutine that runs     *)
(* the operation and the select that races it against the deadline.         *)
(***************************************************************************)
EXTENDS Integers, Sequences, FiniteSets

(* ------------------------------ bounds --------------------------------- *)

\* Number of goroutines calling Call on the one breaker.
NumCallers == 2
\* The clock stops advancing at MaxTime.
MaxTime == 4
\* failureThreshold and halfOpenThreshold are drawn from 1..MaxThreshold.
MaxThreshold == 2
\* recoveryTime and timeout are drawn from 1..MaxDuration (clock units).
MaxDuration == 1

Callers == 1..NumCallers

(* --------------------------- program values ---------------------------- *)

closed == "closed"
open == "open"
halfOpen == "half-open"

\* Go's nil, for the `any` result and for the error.
Nil == "nil"
ErrTimeout == "request timed out"
ErrOpen == "open state; request blocked"
ErrUnknown == "unknown state"
\* What the caller-supplied operations return.
OK == "OK"
ErrService == "service failed"

\* Message{result, err}: every shape a func() (any, error) can return.
Message == [result : {Nil, OK}, err : {Nil, ErrService}]

\* The zero time.Time of a fresh struct: further in the past than any
\* recoveryTime reaches.
ZeroTime == 0 - (MaxDuration + 1)

\* The arguments NewCircuitBreaker can be given.
Args == [failureThreshold : 1..MaxThreshold, halfOpenThreshold : 1..MaxThreshold,
         recoveryTime : 1..MaxDuration, timeout : 1..MaxDuration]

VARIABLES
    cb,          \* the CircuitBreaker struct, mu apart
    mu,          \* cb.mu: 0 when unlocked, else the caller holding it
    now,         \* the wall clock
    pc,          \* where each caller is in Call
    resChan,     \* each caller's resChan of the runWithTimeout in progress
    fnState,     \* the goroutine of that runWithTimeout: none, running, sent
    deadline,    \* the deadline of that runWithTimeout's context
    orphans,     \* goroutines still running fn after their Call timed out
    absorbed,    \* abandoned channels holding the message of such a goroutine
    blocked,     \* goroutines blocked in their send on resChan
    args,        \* history: the arguments given to NewCircuitBreaker
    last,        \* history: the Call that returned most recently
    closedFails, \* history: failed Calls of the current closed period
    hoSucc       \* history: successful Calls of the current half-open period

vars == <<cb, mu, now, pc, resChan, fnState, deadline, orphans, absorbed,
          blocked, args, last, closedFails, hoSucc>>

(* ----------------------------- construction ---------------------------- *)

NewCircuitBreaker(a) ==
    [state |-> closed,
     failureCount |-> 0,
     lastFailureTime |-> ZeroTime,
     successCount |-> 0,
     failureThreshold |-> a.failureThreshold,
     recoveryTime |-> a.recoveryTime,
     halfOpenThreshold |-> a.halfOpenThreshold,
     timeout |-> a.timeout]

NoCall == [from |-> "none", how |-> "none", invoked |-> FALSE,
           result |-> Nil, err |-> Nil]

Init ==
    /\ args \in Args
    /\ cb = NewCircuitBreaker(args)
    /\ mu = 0
    /\ now = 0
    /\ pc = [c \in Callers |-> "idle"]
    /\ resChan = [c \in Callers |-> <<>>]
    /\ fnState = [c \in Callers |-> "none"]
    /\ deadline = [c \in Callers |-> 0]
    /\ orphans = 0
    /\ absorbed = 0
    /\ blocked = 0
    /\ last = NoCall
    /\ closedFails = 0
    /\ hoSucc = 0

(* --------------------------- the state handlers ------------------------ *)
\* Each handler is given the struct b, what runWithTimeout returned (m) and
\* the time t that time.Now() reads; it yields the struct as the handler
\* leaves it (cb) and the pair the handler returns (ret).

Returned(result, err) == [result |-> result, err |-> err]

\* Variant: the comparison is strict.
FailuresExceedThreshold(b) == b.failureCount > b.failureThreshold

\* processClosedState, line 89.
FailuresReachThreshold(b) == b.failureCount >= b.failureThreshold

\* Variant: a success zeroes failureCount.
processClosedStateZeroesOnSuccess(b, m, t) ==
    IF m.err # Nil
    THEN LET b1 == [b EXCEPT !.failureCount = @ + 1, !.lastFailureTime = t]
         IN  [cb |-> IF FailuresReachThreshold(b1)
                     THEN [b1 EXCEPT !.state = open]
                     ELSE b1,
              ret |-> Returned(Nil, m.err)]
    ELSE [cb |-> [b EXCEPT !.failureCount = 0], ret |-> Returned(m.result, Nil)]

\* Variant: the threshold is compared before the failure is counted.
processClosedStateComparesFirst(b, m, t) ==
    IF m.err # Nil
    THEN LET b1 == [b EXCEPT !.failureCount = @ + 1, !.lastFailureTime = t]
         IN  [cb |-> IF FailuresReachThreshold(b)
                     THEN [b1 EXCEPT !.state = open]
                     ELSE b1,
              ret |-> Returned(Nil, m.err)]
    ELSE [cb |-> b, ret |-> Returned(m.result, Nil)]

\* Variant: the failure path hands back the operation's result with the error.
processClosedStateKeepsResult(b, m, t) ==
    IF m.err # Nil
    THEN LET b1 == [b EXCEPT !.failureCount = @ + 1, !.lastFailureTime = t]
         IN  [cb |-> IF FailuresReachThreshold(b1)
                     THEN [b1 EXCEPT !.state = open]
                     ELSE b1,
              ret |-> Returned(m.result, m.err)]
    ELSE [cb |-> b, ret |-> Returned(m.result, Nil)]

processClosedState(b, m, t) ==
    IF m.err # Nil
    THEN LET b1 == [b EXCEPT !.failureCount = @ + 1, !.lastFailureTime = t]
         IN  [cb |-> IF FailuresReachThreshold(b1)
                     THEN [b1 EXCEPT !.state = open]
                     ELSE b1,
              ret |-> Returned(Nil, m.err)]
    ELSE [cb |-> b, ret |-> Returned(m.result, Nil)]

resetCircuit(b) == [b EXCEPT !.failureCount = 0, !.state = closed]

\* Variant: the comparison is not strict.
RecoveryTimeReached(b, t) == t - b.lastFailureTime >= b.recoveryTime

\* processOpenState, line 108: time.Since(cb.lastFailureTime) > cb.recoveryTime.
RecoveryTimePassed(b, t) == t - b.lastFailureTime > b.recoveryTime

\* Variant: past recoveryTime the assignment to state is missing.
processOpenStateStaysOpen(b, t) ==
    IF RecoveryTimePassed(b, t)
    THEN [cb |-> [b EXCEPT !.halfOpenThreshold = 0,
                           !.failureCount = 0],
          ret |-> Returned(Nil, Nil)]
    ELSE [cb |-> b, ret |-> Returned(Nil, ErrOpen)]

\* Variant: past recoveryTime the circuit is reset at once.
processOpenStateCloses(b, t) ==
    IF RecoveryTimePassed(b, t)
    THEN [cb |-> [b EXCEPT !.state = closed,
                           !.halfOpenThreshold = 0,
                           !.failureCount = 0],
          ret |-> Returned(Nil, Nil)]
    ELSE [cb |-> b, ret |-> Returned(Nil, ErrOpen)]

\* Variant: the transitioning call is rejected like the blocked ones.
processOpenStateRejecting(b, t) ==
    IF RecoveryTimePassed(b, t)
    THEN [cb |-> [b EXCEPT !.state = halfOpen,
                           !.halfOpenThreshold = 0,
                           !.failureCount = 0],
          ret |-> Returned(Nil, ErrOpen)]
    ELSE [cb |-> b, ret |-> Returned(Nil, ErrOpen)]

processOpenState(b, t) ==
    IF RecoveryTimePassed(b, t)
    THEN [cb |-> [b EXCEPT !.state = halfOpen,
                           !.halfOpenThreshold = 0,
                           !.failureCount = 0],
          ret |-> Returned(Nil, Nil)]
    ELSE [cb |-> b, ret |-> Returned(Nil, ErrOpen)]

\* processHalfOpenState, line 136.
SuccessesReachThreshold(b) == b.successCount >= b.halfOpenThreshold

\* Variant: the success path returns nil, nil.
processHalfOpenStateDropsResult(b, m, t) ==
    IF m.err # Nil
    THEN [cb |-> [b EXCEPT !.state = open, !.lastFailureTime = t],
          ret |-> Returned(Nil, m.err)]
    ELSE LET b1 == [b EXCEPT !.successCount = @ + 1]
         IN  [cb |-> IF SuccessesReachThreshold(b1) THEN resetCircuit(b1) ELSE b1,
              ret |-> Returned(Nil, Nil)]

\* Variant: the failure path does not touch lastFailureTime.
processHalfOpenStateStaleTime(b, m, t) ==
    IF m.err # Nil
    THEN [cb |-> [b EXCEPT !.state = open],
          ret |-> Returned(Nil, m.err)]
    ELSE LET b1 == [b EXCEPT !.successCount = @ + 1]
         IN  [cb |-> IF SuccessesReachThreshold(b1) THEN resetCircuit(b1) ELSE b1,
              ret |-> Returned(m.result, Nil)]

processHalfOpenState(b, m, t) ==
    IF m.err # Nil
    THEN [cb |-> [b EXCEPT !.state = open, !.lastFailureTime = t],
          ret |-> Returned(Nil, m.err)]
    ELSE LET b1 == [b EXCEPT !.successCount = @ + 1]
         IN  [cb |-> IF SuccessesReachThreshold(b1) THEN resetCircuit(b1) ELSE b1,
              ret |-> Returned(m.result, Nil)]

(* ------------------------------- Call ---------------------------------- *)

\* The history of the Call that returns in this step, and of the periods.
Record(from, how, invoked, ret) ==
    /\ last' = [from |-> from, how |-> how, invoked |-> invoked,
                result |-> ret.result, err |-> ret.err]
    /\ closedFails' = IF from = closed /\ ret.err # Nil THEN closedFails + 1
                      ELSE IF cb'.state = closed /\ cb.state # closed THEN 0
                      ELSE closedFails
    /\ hoSucc' = IF from = halfOpen /\ ret.err = Nil THEN hoSucc + 1
                 ELSE IF cb'.state = halfOpen /\ cb.state # halfOpen THEN 0
                 ELSE hoSucc

\* The deferred cb.mu.Unlock() and the return to the caller. A goroutine
\* still running fn is left behind with its channel.
Return(c) ==
    /\ mu' = 0
    /\ pc' = [pc EXCEPT ![c] = "idle"]
    /\ orphans' = IF fnState[c] = "running" THEN orphans + 1 ELSE orphans
    /\ fnState' = [fnState EXCEPT ![c] = "none"]
    /\ resChan' = [resChan EXCEPT ![c] = <<>>]
    /\ deadline' = [deadline EXCEPT ![c] = 0]
    /\ UNCHANGED <<absorbed, blocked>>

\* A caller enters Call and reaches cb.mu.Lock().
Enter(c) ==
    /\ pc[c] = "idle"
    /\ pc' = [pc EXCEPT ![c] = "lock"]
    /\ UNCHANGED <<cb, mu, now, resChan, fnState, deadline, orphans, absorbed,
                   blocked, args, last, closedFails, hoSucc>>

\* Variant: Lock does not wait.
LockAlways == TRUE

\* cb.mu.Lock() succeeds only on an unlocked mutex.
LockFree == mu = 0

Lock(c) ==
    /\ pc[c] = "lock"
    /\ LockFree
    /\ mu' = c
    /\ pc' = [pc EXCEPT ![c] = "switch"]
    /\ UNCHANGED <<cb, now, resChan, fnState, deadline, orphans, absorbed,
                   blocked, args, last, closedFails, hoSucc>>

\* The switch on cb.state. closed and half-open enter their handler, which
\* starts runWithTimeout: the context with its deadline, the channel, the
\* goroutine running fn, and then the select. open runs processOpenState to
\* its return. Any other value returns the unknown-state error.
Switch(c) ==
    /\ pc[c] = "switch"
    /\ IF cb.state \in {closed, halfOpen}
       THEN /\ pc' = [pc EXCEPT ![c] = cb.state]
            /\ deadline' = [deadline EXCEPT ![c] = now + cb.timeout]
            /\ resChan' = [resChan EXCEPT ![c] = <<>>]
            /\ fnState' = [fnState EXCEPT ![c] = "running"]
            /\ UNCHANGED <<cb, mu, orphans, absorbed, blocked, last,
                           closedFails, hoSucc>>
       ELSE IF cb.state = open
       THEN LET r == processOpenState(cb, now)
            IN  /\ cb' = r.cb
                /\ Return(c)
                /\ Record(open, "open", FALSE, r.ret)
       ELSE /\ cb' = cb
            /\ Return(c)
            /\ Record(cb.state, "unknown", FALSE, Returned(Nil, ErrUnknown))
    /\ UNCHANGED <<now, args>>

\* make(chan Message, 1), line 153: the capacity of resChan.
ChanCap == 1

\* Variant: the channel is used as if it had no buffer.
CanSendUnbuffered(ch, receiving) == receiving

\* resChan <- Message{res, err}, line 157: the send proceeds when the buffer
\* has room or a receiver is waiting on the channel.
CanSend(ch, receiving) == Len(ch) < ChanCap \/ receiving

\* The goroutine: fn returns m and the goroutine sends it on resChan, which
\* the caller's select is receiving from.
FnReturns(c, m) ==
    /\ fnState[c] = "running"
    /\ CanSend(resChan[c], pc[c] \in {closed, halfOpen})
    /\ resChan' = [resChan EXCEPT ![c] = Append(resChan[c], m)]
    /\ fnState' = [fnState EXCEPT ![c] = "sent"]
    /\ UNCHANGED <<cb, mu, now, pc, deadline, orphans, absorbed, blocked, args,
                   last, closedFails, hoSucc>>

\* The rest of the handler the caller is in, once runWithTimeout returned m.
Handle(c, how, m) ==
    LET r == IF pc[c] = closed
             THEN processClosedState(cb, m, now)
             ELSE processHalfOpenState(cb, m, now)
    IN  /\ cb' = r.cb
        /\ Return(c)
        /\ Record(pc[c], how, TRUE, r.ret)
        /\ UNCHANGED <<now, args>>

\* select, case res := <-resChan.
SelectResult(c) ==
    /\ pc[c] \in {closed, halfOpen}
    /\ resChan[c] # <<>>
    /\ Handle(c, "result", Head(resChan[c]))

\* Variant: the deadline branch returns no error.
TimedOutNoError == Returned(Nil, Nil)

\* What runWithTimeout returns at line 162.
TimedOut == Returned(Nil, ErrTimeout)

\* Variant: the select has no deadline branch.
SelectDoneNever(c) ==
    /\ pc[c] \in {closed, halfOpen}
    /\ FALSE
    /\ Handle(c, "deadline", TimedOut)

\* select, case <-ctx.Done(): the context's deadline has passed.
SelectDone(c) ==
    /\ pc[c] \in {closed, halfOpen}
    /\ now >= deadline[c]
    /\ Handle(c, "deadline", TimedOut)

\* Variant: resChan is one channel shared by all Calls, so the message of a
\* goroutine whose Call timed out lands in the channel of a Call in progress.
OrphanReturnsShared ==
    /\ orphans > 0
    /\ orphans' = orphans - 1
    /\ \E c \in Callers, m \in Message :
          /\ pc[c] \in {closed, halfOpen}
          /\ resChan[c] = <<>>
          /\ resChan' = [resChan EXCEPT ![c] = <<m>>]
    /\ UNCHANGED <<cb, mu, now, pc, fnState, deadline, absorbed, blocked, args,
                   last, closedFails, hoSucc>>

\* A goroutine whose Call timed out: fn returns and the goroutine sends the
\* message on the resChan it captured, the channel of the Call that has returned.
\* Nothing receives from that channel and nothing else has sent on it: the
\* send goes into the empty buffer and the goroutine ends, or, without room,
\* blocks for good.
OrphanReturns ==
    /\ orphans > 0
    /\ orphans' = orphans - 1
    /\ IF CanSend(<<>>, FALSE)
       THEN absorbed' = absorbed + 1 /\ blocked' = blocked
       ELSE blocked' = blocked + 1 /\ absorbed' = absorbed
    /\ UNCHANGED <<cb, mu, now, pc, resChan, fnState, deadline, args, last,
                   closedFails, hoSucc>>

Tick ==
    /\ now < MaxTime
    /\ now' = now + 1
    /\ UNCHANGED <<cb, mu, pc, resChan, fnState, deadline, orphans, absorbed,
                   blocked, args, last, closedFails, hoSucc>>

Next ==
    \/ \E c \in Callers : Enter(c)
    \/ \E c \in Callers : Lock(c)
    \/ \E c \in Callers : Switch(c)
    \/ \E c \in Callers, m \in Message : FnReturns(c, m)
    \/ \E c \in Callers : SelectResult(c)
    \/ \E c \in Callers : SelectDone(c)
    \/ OrphanReturns
    \/ Tick

Spec == Init /\ [][Next]_vars

(* ------------------------- scheduling and timers ----------------------- *)

\* The scheduler runs a goroutine that can take its next step, the clock
\* advances and the context's timer fires once its deadline has passed.
\* Nothing makes a caller call or an operation return. Only the caller
\* holding the mutex is at the switch or in the select, so the fairness is
\* stated for the callers together.
LiveSpec ==
    /\ Spec
    /\ WF_vars(Tick)
    /\ WF_vars(\E c \in Callers : Switch(c))
    /\ WF_vars(\E c \in Callers : SelectDone(c))

\* A run in which the protected service recovers: from HealTime on no
\* operation returns an error and none is timed out, and the clock reaches
\* HealTime only once no error is waiting in a channel. HealTime leaves the
\* clock room for the longest recoveryTime.
HealTime == MaxTime - MaxDuration - 1

FnReturnsHealing(c, m) ==
    /\ m.err # Nil => now < HealTime
    /\ FnReturns(c, m)

SelectDoneHealing(c) ==
    /\ now < HealTime
    /\ SelectDone(c)

TickHealing ==
    /\ now + 1 >= HealTime =>
          \A c \in Callers :
             IF resChan[c] = <<>> THEN TRUE ELSE Head(resChan[c]).err = Nil
    /\ Tick

NextHealing ==
    \/ \E c \in Callers : Enter(c)
    \/ \E c \in Callers : Lock(c)
    \/ \E c \in Callers : Switch(c)
    \/ \E c \in Callers, m \in Message : FnReturnsHealing(c, m)
    \/ \E c \in Callers : SelectResult(c)
    \/ \E c \in Callers : SelectDoneHealing(c)
    \/ OrphanReturns
    \/ TickHealing

\* Besides, some caller keeps calling, a goroutine that can step is run, and
\* every operation returns.
RecoverySpec ==
    /\ Init
    /\ [][NextHealing]_vars
    /\ WF_vars(TickHealing)
    /\ WF_vars(\E c \in Callers : Enter(c))
    /\ WF_vars(\E c \in Callers : Lock(c))
    /\ WF_vars(\E c \in Callers : Switch(c))
    /\ WF_vars(\E c \in Callers, m \in Message : FnReturnsHealing(c, m))
    /\ WF_vars(\E c \in Callers : SelectResult(c))

(* ------------------------------ properties ----------------------------- *)

\* Caller c is between Lock's return and Call's return.
InCall(c) == pc[c] \notin {"idle", "lock"}
\* This step is caller c's switch on cb.state.
Dispatches(c) == pc[c] = "switch" /\ pc'[c] # "switch"
\* This step is the return of caller c's Call from a handler that ran fn.
ReturnsFromRun(c) == pc[c] \in {closed, halfOpen} /\ pc'[c] = "idle"

C2_OpenBlocksWithoutEffect ==
    [][\A c \in Callers :
          (/\ Dispatches(c)
           /\ cb.state = open
           /\ now - cb.lastFailureTime <= args.recoveryTime) =>
              /\ pc'[c] = "idle"
              /\ last' = [from |-> open, how |-> "open", invoked |-> FALSE,
                          result |-> Nil, err |-> ErrOpen]
              /\ fnState'[c] = "none"
              /\ orphans' = orphans
              /\ cb' = cb
      ]_vars

\* C2 witness: a Call was just rejected exactly recoveryTime after the last
\* failure.
C2_Witness ==
    /\ cb.state = open
    /\ last.how = "open"
    /\ last.err = ErrOpen
    /\ now - cb.lastFailureTime = args.recoveryTime

\* C3: a Call that is dispatched while the breaker is open and more than
\* recoveryTime has passed since lastFailureTime moves the breaker to
\* half-open and returns neither a result nor an error without starting the
\* operation; the operation is started only by the switch of a Call that
\* finds the breaker closed or half-open, so only by a later Call.
C3_FirstCallAfterRecoveryOnlyFlips ==
    [][\A c \in Callers :
          /\ (/\ Dispatches(c)
              /\ cb.state = open
              /\ now - cb.lastFailureTime > args.recoveryTime) =>
                 /\ cb'.state = halfOpen
                 /\ pc'[c] = "idle"
                 /\ fnState'[c] = "none"
                 /\ orphans' = orphans
                 /\ last'.invoked = FALSE
                 /\ last'.result = Nil
                 /\ last'.err = Nil
          /\ (fnState[c] # "running" /\ fnState'[c] = "running") =>
                 /\ Dispatches(c)
                 /\ cb.state \in {closed, halfOpen}
      ]_vars

\* C3 witness: the breaker is half-open right after the Call that flipped it,
\* and no Call has succeeded in the period yet.
C3_Witness ==
    /\ cb.state = halfOpen
    /\ last.from = open
    /\ last.invoked = FALSE
    /\ hoSucc = 0
    /\ now - cb.lastFailureTime > args.recoveryTime

\* C4: in half-open the breaker closes exactly when the successful Calls of
\* the current half-open period reach the halfOpenThreshold given at
\* construction: for a constructed threshold of at least two, right after a
\* successful half-open Call the breaker is closed if that many Calls of the
\* period have succeeded and is still half-open if fewer have.
C4_ClosesAtConstructedThreshold ==
    (/\ args.halfOpenThreshold >= 2
     /\ last.from = halfOpen
     /\ last.err = Nil) =>
        IF hoSucc >= args.halfOpenThreshold
        THEN cb.state = closed
        ELSE cb.state = halfOpen

\* C5: failureThreshold, halfOpenThreshold, recoveryTime and timeout hold
\* the values given to NewCircuitBreaker in every reachable state.
C5_ConfigurationIsImmutable ==
    /\ cb.failureThreshold = args.failureThreshold
    /\ cb.halfOpenThreshold = args.halfOpenThreshold
    /\ cb.recoveryTime = args.recoveryTime
    /\ cb.timeout = args.timeout

\* C6: every step that takes the breaker from half-open to closed leaves
\* failureCount = 0 and successCount = 0.
C6_CountersZeroOnRecovery ==
    [][(cb.state = halfOpen /\ cb'.state = closed) =>
          (cb'.failureCount = 0 /\ cb'.successCount = 0)]_vars

\* C7: a half-open Call whose operation returned an error, or whose deadline
\* passed first, leaves the breaker open with lastFailureTime set to the
\* current time and returns no result and that error, whatever successCount
\* and the successes of the period are.
C7_HalfOpenFailureReopens ==
    [][\A c \in Callers :
          (/\ ReturnsFromRun(c)
           /\ pc[c] = halfOpen
           /\ \/ last'.how = "deadline"
              \/ last'.how = "result" /\ Head(resChan[c]).err # Nil) =>
              /\ cb'.state = open
              /\ cb'.lastFailureTime = now
              /\ last'.result = Nil
              /\ last'.err = IF last'.how = "deadline"
                             THEN ErrTimeout
                             ELSE Head(resChan[c]).err
      ]_vars

\* C7 witness: the breaker was just reopened by a failed half-open Call
\* although successCount was not zero.
C7_Witness ==
    /\ cb.state = open
    /\ last.from = halfOpen
    /\ last.err # Nil
    /\ cb.successCount > 0
    /\ cb.lastFailureTime = now

\* What a failed Call does to the struct b in the handler `from` at time t.
FailureEffect(b, from, t) ==
    IF from = closed
    THEN [b EXCEPT !.failureCount = b.failureCount + 1,
                   !.lastFailureTime = t,
                   !.state = IF b.failureCount + 1 >= b.failureThreshold
                             THEN open
                             ELSE b.state]
    ELSE [b EXCEPT !.state = open, !.lastFailureTime = t]

\* C8: a Call that leaves the select while the deadline has passed and the
\* operation has sent nothing leaves it by the deadline branch; a Call that
\* leaves by the deadline branch returns no result and the timeout error;
\* and in closed and in half-open its effect on the struct is the effect of
\* a Call whose operation returned an error in the same starting state.
C8_TimeoutCountsAsFailure ==
    [][\A c \in Callers :
          ReturnsFromRun(c) =>
             /\ (resChan[c] = <<>>) => (last'.how = "deadline" /\ now >= deadline[c])
             /\ (last'.how = "deadline") =>
                   /\ last'.result = Nil
                   /\ last'.err = ErrTimeout
                   /\ cb' = FailureEffect(cb, pc[c], now)
             /\ (last'.how = "result" /\ Head(resChan[c]).err # Nil) =>
                   cb' = FailureEffect(cb, pc[c], now)
      ]_vars

\* C8 witness: a closed Call just timed out below the threshold: it counted
\* as the first failure and the breaker is still closed.
C8_Witness ==
    /\ last.how = "deadline"
    /\ last.from = closed
    /\ last.err = ErrTimeout
    /\ cb.state = closed
    /\ cb.failureCount = 1
    /\ cb.lastFailureTime = now

\* C9: at most one caller is between Lock's return and Call's return, that
\* caller holds the mutex, and a step that changes the struct is the return
\* of the Call of the caller holding the mutex; every other caller is
\* outside Call or waiting in Lock, whatever the state of the breaker.
C9_CallsAreSerialized ==
    /\ [](/\ Cardinality({c \in Callers : InCall(c)}) <= 1
          /\ \A c \in Callers : InCall(c) => mu = c)
    /\ [][(cb' # cb) =>
             \E c \in Callers :
                /\ mu = c
                /\ InCall(c)
                /\ pc'[c] = "idle"
                /\ \A d \in Callers \ {c} : ~InCall(d) /\ pc'[d] = pc[d]
         ]_vars

\* C9 witness: one caller waits in Lock while another is in the select of
\* its Call, holding the mutex.
C9_Witness ==
    \E c, d \in Callers :
        /\ c # d
        /\ pc[c] \in {closed, halfOpen}
        /\ mu = c
        /\ pc[d] = "lock"

\* C10 as stated: every Call returns either no result and an error, or no
\* error and the result of the operation it ran.
C10_TwoReturnShapes ==
    last.how # "none" =>
        \/ last.err # Nil /\ last.result = Nil
        \/ last.err = Nil /\ last.invoked

\* C10 amended: every Call returns no result and an error, or no error and
\* the result of the operation it ran, or, only when it is the Call that
\* moved the breaker from open to half-open without running the operation,
\* no result and no error.
C10_ThreeReturnShapes ==
    last.how # "none" =>
        \/ last.err # Nil /\ last.result = Nil
        \/ last.err = Nil /\ last.invoked
        \/ /\ last.err = Nil
           /\ last.result = Nil
           /\ ~last.invoked
           /\ last.from = open
           /\ cb.state = halfOpen

\* C10 witness: a Call that ran no operation has just returned no result and
\* no error.
C10_Witness ==
    /\ last.how = "open"
    /\ last.result = Nil
    /\ last.err = Nil

\* C11: a Call that leaves the select while the operation's message is in
\* the channel and the deadline has not passed leaves it by the result
\* branch; a Call that leaves by the result branch returns the operation's
\* own result and no error when the operation returned no error, and the
\* operation's own error and no result when it returned an error; and the
\* goroutine running the operation is started once per Call, by the switch,
\* and is not started again before the Call returns.
C11_OutcomeIsPropagated ==
    [][\A c \in Callers :
          /\ (ReturnsFromRun(c) /\ resChan[c] # <<>> /\ now < deadline[c]) =>
                last'.how = "result"
          /\ (ReturnsFromRun(c) /\ last'.how = "result") =>
                /\ resChan[c] # <<>>
                /\ IF Head(resChan[c]).err = Nil
                   THEN /\ last'.result = Head(resChan[c]).result
                        /\ last'.err = Nil
                   ELSE /\ last'.result = Nil
                        /\ last'.err = Head(resChan[c]).err
          /\ (fnState[c] # "running" /\ fnState'[c] = "running") =>
                (fnState[c] = "none" /\ Dispatches(c))
          /\ (fnState[c] # "none" /\ fnState'[c] = "none") => pc'[c] = "idle"
      ]_vars

\* C11 witness: a half-open Call has just returned the result its operation
\* produced, with no error.
C11_Witness ==
    /\ last.from = halfOpen
    /\ last.how = "result"
    /\ last.invoked
    /\ last.result = OK
    /\ last.err = Nil

\* C12: right after a successful Call handled in closed, failureCount = 0.
C12_SuccessZeroesFailureCount ==
    (last.from = closed /\ last.err = Nil) => cb.failureCount = 0

\* C14: every step that takes the breaker from open to half-open leaves
\* failureCount = 0 and successCount = 0.
C14_CountersZeroOnHalfOpenEntry ==
    [][(cb.state = open /\ cb'.state = halfOpen) =>
          (cb'.failureCount = 0 /\ cb'.successCount = 0)]_vars

Edges == {<<closed, open>>, <<open, halfOpen>>, <<halfOpen, open>>,
          <<halfOpen, closed>>}

\* C18: state is always closed, open or half-open and no Call has returned
\* the unknown-state error; every step that changes state follows one of
\* closed -> open, open -> half-open, half-open -> open, half-open -> closed,
\* and is the return of one Call, so a Call makes at most one such step.
C18_OnlyTheFourTransitions ==
    /\ [](/\ cb.state \in {closed, open, halfOpen}
          /\ last.how # "unknown"
          /\ last.err # ErrUnknown)
    /\ [][(cb'.state # cb.state) =>
             /\ <<cb.state, cb'.state>> \in Edges
             /\ \E c \in Callers : InCall(c) /\ pc'[c] = "idle"
         ]_vars

\* C18 witness: the breaker has gone through closed, open and half-open and
\* is closed again.
C18_Witness ==
    /\ cb.state = closed
    /\ last.from = halfOpen
    /\ hoSucc > 0

\* C19: whenever no Call is in progress and the breaker is closed,
\* 0 <= failureCount < the failureThreshold given at construction.
C19_ClosedBelowThreshold ==
    ((\A c \in Callers : ~InCall(c)) /\ cb.state = closed) =>
        (0 <= cb.failureCount /\ cb.failureCount < args.failureThreshold)

\* C19 witness: the breaker is closed and idle one failure short of opening.
C19_Witness ==
    /\ \A c \in Callers : ~InCall(c)
    /\ cb.state = closed
    /\ cb.failureCount = args.failureThreshold - 1
    /\ cb.failureCount > 0

\* C16: a Call that returns by the deadline branch while its operation is
\* still running leaves the goroutine running (one more is left behind, none
\* is stopped); when such a goroutine's operation completes, its send goes
\* into the buffer of its channel and the goroutine ends; no goroutine is
\* ever blocked in its send.
C16_TimedOutGoroutineEnds ==
    /\ [](blocked = 0)
    /\ [][/\ \A c \in Callers :
                (ReturnsFromRun(c) /\ fnState[c] = "running") =>
                   /\ last'.how = "deadline"
                   /\ orphans' = orphans + 1
          /\ (orphans' < orphans) =>
                /\ orphans' = orphans - 1
                /\ absorbed' = absorbed + 1
                /\ blocked' = blocked
         ]_vars

\* C16 witness: every goroutine left behind by a timed-out Call has ended,
\* its message in the buffer of its abandoned channel.
C16_Witness ==
    /\ absorbed > 0
    /\ orphans = 0
    /\ blocked = 0

\* C17: the step in which the operation of a timed-out Call completes changes
\* neither the struct nor the channel, position or goroutine of any caller
\* nor what the last Call returned; and a message enters a caller's channel
\* only by the send of the goroutine that this caller's Call in progress
\* started, so what a Call receives is never the message of an earlier,
\* timed-out Call, also while both operations run at the same time.
C17_LateResultIsDiscarded ==
    [][/\ (orphans' < orphans) =>
             /\ cb' = cb
             /\ resChan' = resChan
             /\ pc' = pc
             /\ fnState' = fnState
             /\ last' = last
       /\ \A c \in Callers :
             (resChan'[c] # resChan[c] /\ resChan'[c] # <<>>) =>
                /\ fnState[c] = "running"
                /\ fnState'[c] = "sent"
                /\ orphans' = orphans
      ]_vars

\* C17 witness: the message of a timed-out Call has been absorbed while the
\* operation of a later Call is running, whose channel is still empty, and
\* another timed-out operation is still running beside it.
C17_Witness ==
    /\ absorbed > 0
    /\ orphans > 0
    /\ \E c \in Callers :
          /\ fnState[c] = "running"
          /\ resChan[c] = <<>>
          /\ last.how = "deadline"

\* C13: when the caller holding the mutex has started its operation and the
\* clock can reach its deadline, the mutex becomes unlocked (which only the
\* return of that Call does), also when the operation never completes; a
\* Call at the switch goes on; a Call that returns while its operation is
\* still running returns no result and the timeout error; and every return
\* unlocks the mutex, so that Lock can succeed for a caller that waits.
C13_HungOperationDoesNotBlock ==
    /\ (\E c \in Callers :
           mu = c /\ pc[c] \in {closed, halfOpen} /\ deadline[c] <= MaxTime)
          ~> (mu = 0)
    /\ (\E c \in Callers : pc[c] = "switch")
          ~> (\A c \in Callers : pc[c] # "switch")
    /\ [][\A c \in Callers :
             /\ (ReturnsFromRun(c) /\ fnState[c] = "running") =>
                   (last'.result = Nil /\ last'.err = ErrTimeout)
             /\ (InCall(c) /\ pc'[c] = "idle") => (mu' = 0 /\ LockFree')
         ]_vars

\* C13 witness: a Call has timed out and returned while its operation is
\* still running, the mutex is unlocked and another caller waits in Lock.
C13_Witness ==
    /\ last.how = "deadline"
    /\ orphans > 0
    /\ mu = 0
    /\ \E d \in Callers : pc[d] = "lock"

\* C20: in a run in which the service recovers, the clock advances and
\* callers keep calling, an open breaker becomes closed.
C20_OpenLeadsToClosed ==
    (cb.state = open) ~> (cb.state = closed)

\* C20 witness: the breaker is closed again after having been open and
\* half-open, past the time from which the service is healthy.
C20_Witness ==
    /\ cb.state = closed
    /\ hoSucc > 0
    /\ last.from = halfOpen
    /\ now >= HealTime
    /\ cb.lastFailureTime >= 0

====
